---- MODULE Spec2Model ----
(***************************************************************************)
(* A model of the pCloud sync target of Joplin:                            *)
(*   - SyncTargetPCloud.api() and the persisted auth setting,              *)
(*   - PCloudApi: setAuth / dispatch / token / apiUrl and the retry loop   *)
(*     of exec,                                                            *)
(*   - FileApiDriverPCloud: stat, list, get, mkdir, put, fileExists,       *)
(*     delete and the closure of delta, over a provider that holds a       *)
(*     folder tree and files.                                              *)
(*                                                                         *)
(* A JavaScript string that is used as a path is kept as the sequence      *)
(* s.split('/'): '' is <<"">>, '/' is <<"", "">>, '/a/b' is                 *)
(* <<"", "a", "b">>, 'a/b' is <<"a", "b">>, '//a' is <<"", "", "a">>.       *)
(* This is one-to-one, so two path strings are equal exactly when their    *)
(* sequences are.                                                          *)
(***************************************************************************)
EXTENDS Integers, Sequences, FiniteSets, TLC

VARIABLES
    \* ---- Setting store and SyncTargetPCloud
    setting,        \* Setting.value('sync.11.auth')
    api_,           \* SyncTargetPCloud.api_ is set (the client exists)
    \* ---- PCloudApi
    auth_,          \* PCloudApi.auth_
    listeners_,     \* number of callbacks in listeners_.authRefreshed
    notified,       \* the parameters the callbacks got in the last dispatch
    \* ---- one activation of PCloudApi.exec
    pc,             \* "idle" | "inflight" | "sleep" | "done"
    method,         \* the HTTP verb of the call
    url,            \* hostname inside the url built before the loop
    i,              \* the loop variable
    request,        \* the attempt in flight (or the last one sent)
    nSent,          \* requests sent by this call (see nRate)
    nRate,          \* throttled responses this call has met; counting stops
                    \* at MaxRateLimited, and the attempts throttled after that
                    \* are taken out of nSent again
    backoffs,       \* the linear backoff sleeps of this call, in order
    sleepSeconds,   \* the duration of the current (or last) sleep
    cause,          \* how the last response was classified
    outcome,        \* how the call ended
    \* ---- the provider, as FileApiDriverPCloud sees it
    folders,        \* the folders that exist (root is <<>>)
    files,          \* the files that exist, with their content
    collapses,      \* the provider resolves '//a' like '/a'
    \* ---- FileApiDriverPCloud
    op,             \* the driver operation in progress or last completed
    prev            \* the mkdir or put completed before it, if any

clientVars == <<setting, api_, auth_, listeners_, notified, pc, method, url, i,
                request, nSent, nRate, backoffs, sleepSeconds, cause, outcome>>

fsVars == <<folders, files, collapses, op, prev>>

vars == <<clientVars, fsVars>>

----------------------------------------------------------------------------
(* Bounds of the model *)

\* throttled responses of one exec call that are counted
MaxRateLimited == 6
\* largest number of seconds a retry-after header carries
MaxRetryAfter == 6
\* a failure is put at one of the first MaxFaultAt calls of a driver operation
MaxFaultAt == 3
\* descriptor-opens of one put that are followed
MaxOpens == 3

(* Program constants *)

\* for (let i = 0; i < 5; i++)
MaxAttempts == 5
\* sleepSeconds ??= (i + 1) * 5
BackoffUnit == 5

----------------------------------------------------------------------------
(* Values *)

Null == [kind |-> "null"]
Undefined == [kind |-> "undefined"]

\* PcloudAuth: the access token and the hostname bound to it
PcloudAuth == { [kind |-> "auth", access_token |-> "tokenUS", hostname |-> "api.pcloud.com"],
                [kind |-> "auth", access_token |-> "tokenEU", hostname |-> "eapi.pcloud.com"] }

AuthValues == PcloudAuth \cup {Null}

\* JSON.stringify(a): a string holding the JSON text of a
JSONstringify(a) == [kind |-> "string", json |-> a]

EmptyString == [kind |-> "string", raw |-> ""]
GarbageString == [kind |-> "string", raw |-> "{not json"]

\* JSON.parse(s): the value, or a SyntaxError
JSONparse(s) ==
    IF s.kind = "string" /\ "json" \in DOMAIN s
    THEN [ok |-> TRUE, value |-> s.json]
    ELSE [ok |-> FALSE, value |-> Null]

\* JavaScript truthiness of the values the model holds
Truthy(v) == v # Null /\ v # Undefined /\ v # EmptyString

\* what the setting store may hold at start-up
SettingValues == {Null, EmptyString, GarbageString} \cup { JSONstringify(a) : a \in AuthValues }

HttpMethod == {"GET", "DELETE"}

----------------------------------------------------------------------------
(* PCloudApi *)

\* get token()
token(auth) == IF Truthy(auth) THEN auth.access_token ELSE "null"

\* apiUrl(): reads this.auth_.hostname; a TypeError when auth_ is null
apiUrl(auth) ==
    IF auth = Null THEN [ok |-> FALSE, hostname |-> "none"]
    ELSE [ok |-> TRUE, hostname |-> auth.hostname]

\* a callback that serializes whatever it is given, null included
authRefreshedListener_alwaysStringify(a) == JSONstringify(a)

\* the callback SyncTargetPCloud.api() registers: the value it stores
authRefreshedListener(a) == IF Truthy(a) THEN JSONstringify(a) ELSE Null

\* dispatch('authRefreshed', param): every registered callback runs once
dispatch(n, param) == [k \in 1..n |-> param]

\* setAuth(auth) on a client with n listeners: the new values of
\* auth_, the setting (old value s) and the delivered notifications
setAuth(a, n, s) ==
    [auth |-> a,
     setting |-> IF n > 0 THEN authRefreshedListener(a) ELSE s,
     notified |-> dispatch(n, a)]

----------------------------------------------------------------------------
(* The responses exec may meet *)

RetryAfterHeaders ==
    { [kind |-> "absent"], [kind |-> "text", text |-> ""], [kind |-> "text", text |-> "soon"] }
    \cup { [kind |-> "digits", n |-> n] : n \in 0..MaxRetryAfter }

ErrorCodes == {"InvalidAuthenticationToken", "unauthenticated", "generalException", "EAGAIN",
               "resourceModified", "activityLimitReached", "itemNotFound", "quotaExceeded", "none"}

Responses ==
    { [k |-> "ok"], [k |-> "badjson"] }
    \cup { [k |-> "transport", retryable |-> b] : b \in BOOLEAN }
    \cup { [k |-> "error", code |-> c, header |-> [kind |-> "absent"]] :
               c \in ErrorCodes \ {"activityLimitReached"} }
    \cup { [k |-> "error", code |-> "activityLimitReached", header |-> h] : h \in RetryAfterHeaders }

\* Number(x) of a header string
Number(h) ==
    IF h.kind = "digits" THEN [nan |-> FALSE, n |-> h.n]
    ELSE IF h.text = "" THEN [nan |-> FALSE, n |-> 0]
    ELSE [nan |-> TRUE, n |-> 0]

\* a header string is truthy unless it is empty
HeaderTruthy(h) == h.kind = "digits" \/ (h.kind = "text" /\ h.text # "")

\* an if-chain whose item-not-found branch does not look at the verb
Classify_anyVerb(resp, m) ==
    IF resp.k = "transport" THEN (IF resp.retryable THEN "repeat" ELSE "throwTransport")
    ELSE IF resp.k = "ok" THEN "return"
    ELSE IF resp.k = "badjson" THEN "repeat"
    ELSE IF resp.code \in {"InvalidAuthenticationToken", "unauthenticated"} THEN "authRetry"
    ELSE IF resp.code \in {"generalException", "EAGAIN"} THEN "repeat"
    ELSE IF resp.code = "resourceModified" THEN "repeat"
    ELSE IF resp.code = "activityLimitReached" /\ resp.header.kind = "absent" THEN "typeError"
    ELSE IF resp.code = "activityLimitReached" /\ HeaderTruthy(resp.header)
            /\ ~Number(resp.header).nan THEN "throttle"
    ELSE IF resp.code = "itemNotFound" THEN "noop"
    ELSE "fatal"

\* the if-chain of exec on one response
Classify(resp, m) ==
    IF resp.k = "transport" THEN (IF resp.retryable THEN "repeat" ELSE "throwTransport")
    ELSE IF resp.k = "ok" THEN "return"
    ELSE IF resp.k = "badjson" THEN "repeat"
    ELSE IF resp.code \in {"InvalidAuthenticationToken", "unauthenticated"} THEN "authRetry"
    ELSE IF resp.code \in {"generalException", "EAGAIN"} THEN "repeat"
    ELSE IF resp.code = "resourceModified" THEN "repeat"
    ELSE IF resp.code = "activityLimitReached" /\ resp.header.kind = "absent" THEN "typeError"
    ELSE IF resp.code = "activityLimitReached" /\ HeaderTruthy(resp.header)
            /\ ~Number(resp.header).nan THEN "throttle"
    ELSE IF resp.code = "itemNotFound" /\ m = "DELETE" THEN "noop"
    ELSE "fatal"

\* a backoff that starts at zero: i * 5
handleRequestRepeat_zeroBased(idx, secs) == IF secs = Null THEN idx * BackoffUnit ELSE secs.n

\* handleRequestRepeat: sleepSeconds ??= (i + 1) * 5
handleRequestRepeat(idx, secs) == IF secs = Null THEN (idx + 1) * BackoffUnit ELSE secs.n

\* a throttle branch that forgets the decrement
ThrottleIndex_kept(idx) == idx

\* the throttle branch: i--
ThrottleIndex(idx) == idx - 1

\* a continue that leaves the index where it is
NextIndex_same(idx) == idx

\* the loop's i++ after a continue
NextIndex(idx) == idx + 1

----------------------------------------------------------------------------
(* Path strings (path-utils) and FileApiDriverPCloud.makePath *)

\* path.startsWith('/')
StartsWithSlash(path) == Len(path) >= 2 /\ path[1] = ""

\* `/${path}`
Slash(path) == <<"">> \o path

\* makePath(path)
makePath(path) == IF StartsWithSlash(path) THEN path ELSE Slash(path)

\* dirname(path): s = path.split('/'); s.pop(); s.join('/')
\* (it throws 'Path is empty' on '', which the callers here never pass)
dirname(path) == IF Len(path) <= 1 THEN <<"">> ELSE SubSeq(path, 1, Len(path) - 1)

\* basename(path): the last element of path.split('/')
basename(path) == <<path[Len(path)]>>

----------------------------------------------------------------------------
(* The provider: result codes, identifiers, metadata and its replies *)

\* PCloudResponseCodes
Ok == 0
FileNotFound == 2002
ParentNotFound == 2005
\* any other non-OK result of the provider
InternalError == 5000

\* the stamp every entry of the model carries, in seconds
EntrySeconds == 1

\* folder identifiers and file descriptors are opaque to the driver
FolderId(comps) == [kind |-> "folderid", of |-> comps]
Descriptor(comps) == [kind |-> "fd", of |-> comps]

ProviderDate(secs) == [kind |-> "date", secs |-> secs]

FolderMetadata(comps) ==
    [name |-> IF comps = <<>> THEN "/" ELSE comps[Len(comps)],
     isfolder |-> TRUE, isdeleted |-> FALSE, folderid |-> FolderId(comps),
     created |-> ProviderDate(EntrySeconds), modified |-> ProviderDate(EntrySeconds)]

FileMetadata(comps) ==
    [name |-> comps[Len(comps)],
     isfolder |-> FALSE, isdeleted |-> FALSE, folderid |-> Undefined,
     created |-> ProviderDate(EntrySeconds), modified |-> ProviderDate(EntrySeconds)]

\* how the provider reads a path string: absolute, '/' is the root, and a
\* repeated separator is either collapsed or makes the path name nothing
Resolve(str, collapse) ==
    IF ~StartsWithSlash(str) THEN [ok |-> FALSE, comps |-> <<>>]
    ELSE LET rest == SubSeq(str, 2, Len(str))
             NonEmpty(x) == x # ""
         IN  IF rest = <<"">> THEN [ok |-> TRUE, comps |-> <<>>]
             ELSE IF \A k \in 1..Len(rest) : rest[k] # "" THEN [ok |-> TRUE, comps |-> rest]
             ELSE IF collapse THEN [ok |-> TRUE, comps |-> SelectSeq(rest, NonEmpty)]
             ELSE [ok |-> FALSE, comps |-> <<>>]

\* a folder name the provider accepts: one non-empty component
ValidName(name) == Len(name) = 1 /\ name[1] # ""

RECURSIVE SetToSeq(_)
SetToSeq(S) == IF S = {} THEN <<>> ELSE LET x == CHOOSE y \in S : TRUE IN <<x>> \o SetToSeq(S \ {x})

\* the entries directly inside a folder
Contents(w, comps) ==
    LET subFolders == { f \in w.folders : Len(f) = Len(comps) + 1 /\ SubSeq(f, 1, Len(comps)) = comps }
        subFiles == { f \in DOMAIN w.files : Len(f) = Len(comps) + 1 /\ SubSeq(f, 1, Len(comps)) = comps }
    IN  SetToSeq({ FolderMetadata(f) : f \in subFolders } \cup { FileMetadata(f) : f \in subFiles })

\* a reply body: every field a caller reads is there, undefined if not sent
Reply(code) == [result |-> code, metadata |-> Undefined, fd |-> Undefined,
                size |-> Undefined, text |-> [kind |-> "errorBody", result |-> code]]

\* the world the driver acts on: the provider and the calls made so far
World(fo, fi, co, calls) == [folders |-> fo, files |-> fi, collapses |-> co, calls |-> calls]

\* the provider's answer to one command, and the provider after it
Provider(w, req, env) ==
    CASE req.cmd = "stat" ->
           LET r == Resolve(req.path, w.collapses) IN
           IF r.ok /\ r.comps \in w.folders
           THEN [w |-> w, reply |-> [Reply(Ok) EXCEPT !.metadata = FolderMetadata(r.comps)]]
           ELSE IF r.ok /\ r.comps \in DOMAIN w.files
           THEN [w |-> w, reply |-> [Reply(Ok) EXCEPT !.metadata = FileMetadata(r.comps)]]
           ELSE [w |-> w, reply |-> Reply(FileNotFound)]
      [] req.cmd = "listfolder" ->
           LET r == Resolve(req.path, w.collapses) IN
           IF r.ok /\ r.comps \in w.folders
           THEN [w |-> w, reply |-> [Reply(Ok) EXCEPT !.metadata =
                     [name |-> FolderMetadata(r.comps).name, isfolder |-> TRUE,
                      isdeleted |-> FALSE, folderid |-> FolderId(r.comps),
                      created |-> ProviderDate(EntrySeconds), modified |-> ProviderDate(EntrySeconds),
                      contents |-> Contents(w, r.comps)]]]
           ELSE [w |-> w, reply |-> Reply(env.missingFolder)]
      [] req.cmd = "createfolderifnotexists" ->
           IF req.folderid.kind = "folderid" /\ req.folderid.of \in w.folders /\ ValidName(req.name)
           THEN LET comps == Append(req.folderid.of, req.name[1]) IN
                [w |-> [w EXCEPT !.folders = @ \cup {comps}],
                 reply |-> [Reply(Ok) EXCEPT !.metadata = FolderMetadata(comps)]]
           ELSE [w |-> w, reply |-> Reply(InternalError)]
      [] req.cmd = "file_open" ->
           LET r == Resolve(req.path, w.collapses) IN
           IF r.ok /\ r.comps \in DOMAIN w.files
           THEN [w |-> w, reply |-> [Reply(Ok) EXCEPT !.fd = Descriptor(r.comps)]]
           ELSE IF req.create /\ r.ok /\ r.comps # <<>> /\ r.comps \notin w.folders
                   /\ SubSeq(r.comps, 1, Len(r.comps) - 1) \in w.folders
           THEN [w |-> [w EXCEPT !.files = (r.comps :> "") @@ @],
                 reply |-> [Reply(Ok) EXCEPT !.fd = Descriptor(r.comps)]]
           ELSE [w |-> w, reply |-> Reply(FileNotFound)]
      [] req.cmd = "file_size" ->
           IF req.fd.kind = "fd" /\ req.fd.of \in DOMAIN w.files
           THEN [w |-> w, reply |-> [Reply(Ok) EXCEPT !.size = [kind |-> "sizeof", data |-> w.files[req.fd.of]]]]
           ELSE [w |-> w, reply |-> Reply(InternalError)]
      [] req.cmd = "file_read" ->
           IF req.fd.kind = "fd" /\ req.fd.of \in DOMAIN w.files
              /\ req.count = [kind |-> "sizeof", data |-> w.files[req.fd.of]]
           THEN [w |-> w, reply |-> [Reply(Ok) EXCEPT !.text = [kind |-> "content", data |-> w.files[req.fd.of]]]]
           ELSE [w |-> w, reply |-> Reply(InternalError)]
      [] req.cmd = "deletefile" ->
           LET r == Resolve(req.path, w.collapses) IN
           IF r.ok /\ r.comps \in DOMAIN w.files
           THEN [w |-> [w EXCEPT !.files = [f \in DOMAIN @ \ {r.comps} |-> @[f]]],
                 reply |-> [Reply(Ok) EXCEPT !.metadata =
                               [FileMetadata(r.comps) EXCEPT !.isdeleted = TRUE]]]
           ELSE [w |-> w, reply |-> Reply(FileNotFound)]
      [] req.cmd = "file_write" ->
           IF req.fd.kind = "fd" /\ req.fd.of \in DOMAIN w.files
           THEN [w |-> [w EXCEPT !.files = (req.fd.of :> req.data) @@ @], reply |-> Reply(Ok)]
           ELSE [w |-> w, reply |-> Reply(InternalError)]

----------------------------------------------------------------------------
(* What the driver gets back from PCloudApi.exec *)

\* the outcome of a driver function: the world after it, what it threw
\* ("none", "Error", "TypeError" or the error code "itemNotFound"), its value
R(w, threw, value) == [w |-> w, threw |-> threw, value |-> value]

Logged(w, req, code, threw, fault) ==
    [w EXCEPT !.calls = Append(@, [req |-> req, result |-> code, threw |-> threw, fault |-> fault])]

\* the provider answered: log the call and hand the reply over
Answered(pr, req) ==
    [w |-> Logged(pr.w, req, pr.reply.result, "none", FALSE), threw |-> "none", reply |-> pr.reply]

\* api_.exec(...) followed by response.json(): the provider's reply, or the
\* error exec raised. env.faultAt makes one call of the operation fail: exec
\* raises (a fatal error, or one with code itemNotFound), or the provider
\* answers with a result code of its own, or with file-not-found whatever
\* is there (another actor has just removed it)
Exec(w, req, env) ==
    IF env.faultAt = Len(w.calls) + 1
    THEN IF env.faultKind = "result"
         THEN [w |-> Logged(w, req, InternalError, "none", TRUE), threw |-> "none",
               reply |-> Reply(InternalError)]
         ELSE IF env.faultKind = "notFound"
         THEN [w |-> Logged(w, req, FileNotFound, "none", TRUE), threw |-> "none",
               reply |-> Reply(FileNotFound)]
         ELSE [w |-> Logged(w, req, InternalError, env.faultKind, TRUE), threw |-> env.faultKind,
               reply |-> Reply(InternalError)]
    ELSE Answered(Provider(w, req, env), req)

\* await r, then K on what it resolved to; a rejection propagates
Await(r, K(_)) == IF r.threw # "none" THEN R(r.w, r.threw, Undefined) ELSE K(r)

----------------------------------------------------------------------------
(* FileApiDriverPCloud *)

\* moment(text, PCLOUD_DATE_FORMAT).format('x'): the milliseconds, as text
momentFormatX(date) == [kind |-> "string", digits |-> date.secs * 1000]

\* Number(text)
ToNumber(str) == str.digits

makeItem(odItem) ==
    IF odItem.isdeleted
    THEN [path |-> odItem.name, isDir |-> odItem.isfolder, isDeleted |-> TRUE]
    ELSE [path |-> odItem.name, isDir |-> odItem.isfolder,
          created_time |-> momentFormatX(odItem.created),
          updated_time |-> ToNumber(momentFormatX(odItem.modified))]

makeItems(odItems) == [k \in 1..Len(odItems) |-> makeItem(odItems[k])]

\* rootFolderMetadata(): response.metadata of a shallow listing of '/'
rootFolderMetadata(w, env) ==
    Await(Exec(w, [cmd |-> "listfolder", path |-> <<"", "">>, recursive |-> 0], env),
          LAMBDA r : R(r.w, "none", r.reply.metadata))

statRaw(w, path, env) ==
    IF path = <<"">> THEN rootFolderMetadata(w, env)
    ELSE Await(Exec(w, [cmd |-> "stat", path |-> makePath(path)], env),
               LAMBDA r : IF r.reply.result # Ok
                          THEN IF r.reply.result = FileNotFound
                               THEN R(r.w, "none", Null)
                               ELSE R(r.w, "Error", Undefined)
                          ELSE R(r.w, "none", r.reply.metadata))

stat(w, path, env) ==
    Await(statRaw(w, path, env),
          LAMBDA item : IF ~Truthy(item.value) THEN R(item.w, "none", Null)
                        ELSE R(item.w, "none", makeItem(item.value)))

\* a list that reports an empty listing as unfinished
listResult_more(items) == [hasMore |-> items = <<>>, items |-> items]

\* the value list returns
listResult(items) == [hasMore |-> FALSE, items |-> items]

\* result.metadata.contents is read without a check: a TypeError on any
\* reply that carries no metadata
\* the options are handed to exec as its data, the body of the request
list(w, path, options, env) ==
    Await(Exec(w, [cmd |-> "listfolder", path |-> makePath(path), recursive |-> 1,
                   data |-> options], env),
          LAMBDA r : IF r.reply.result = FileNotFound THEN R(r.w, "none", listResult(<<>>))
                     ELSE IF r.reply.metadata = Undefined THEN R(r.w, "TypeError", Undefined)
                     ELSE R(r.w, "none", listResult(makeItems(r.reply.metadata.contents))))

\* the closure delta hands to basicDelta
getDirStats(w, path, env) ==
    Await(list(w, path, [includeDirs |-> FALSE], env),
          LAMBDA result : R(result.w, "none", result.value.items))

\* PCloudApi.fileSizeInBytes
fileSizeInBytes(w, fileDescriptor, env) ==
    Await(Exec(w, [cmd |-> "file_size", fd |-> fileDescriptor, awaited |-> TRUE], env),
          LAMBDA r : IF r.reply.result # Ok THEN R(r.w, "none", Undefined)
                     ELSE R(r.w, "none", r.reply.size))

\* PCloudApi.readRemoteFileContent: exec only ever returns an ok response,
\* so neither !response.ok nor the else of readResponse.ok is taken
readRemoteFileContent(w, path, env) ==
    Await(Exec(w, [cmd |-> "file_open", create |-> FALSE, path |-> Slash(path)], env),
      LAMBDA response :
        Await(fileSizeInBytes(response.w, response.reply.fd, env),
          LAMBDA fileSize :
            Await(Exec(fileSize.w, [cmd |-> "file_read", fd |-> response.reply.fd,
                                    count |-> fileSize.value], env),
              LAMBDA readResponse : R(readResponse.w, "none", readResponse.reply.text))))

\* the size query of execContent: started, its promise never awaited
Unawaited(r) == R(r.w, "none", [kind |-> "promise"])

\* PCloudApi.execContent: the promise of the size query is the count of the
\* read; the value is the file_open response
execContent(w, path, env) ==
    Await(Exec(w, [cmd |-> "file_open", create |-> FALSE, path |-> Slash(path)], env),
      LAMBDA response :
        Await(Unawaited(Exec(response.w, [cmd |-> "file_size", fd |-> response.reply.fd,
                                          awaited |-> FALSE], env)),
          LAMBDA fileSize :
            Await(Exec(fileSize.w, [cmd |-> "file_read", fd |-> response.reply.fd,
                                    count |-> fileSize.value], env),
              LAMBDA readResponse :
                R(readResponse.w, "none", [kind |-> "response", body |-> response.reply]))))

\* the catch block of get
getCatch(r) == IF r.threw = "itemNotFound" THEN R(r.w, "none", Null) ELSE r

get(w, path, target, env) ==
    getCatch(IF target = "file"
             THEN execContent(w, makePath(path), env)
             ELSE readRemoteFileContent(w, makePath(path), env))

execCreateDir(w, name, parentFolderId, env) ==
    Await(Exec(w, [cmd |-> "createfolderifnotexists", folderid |-> parentFolderId,
                   name |-> name], env),
          LAMBDA r : IF r.reply.result # Ok THEN R(r.w, "Error", Undefined)
                     ELSE R(r.w, "none", r.reply.metadata))

\* a reading of folderid that falls back to the root folder
folderidOf_orRoot(r) == IF Truthy(r.value) THEN R(r.w, "none", r.value.folderid)
                        ELSE R(r.w, "none", FolderId(<<>>))

\* metadata.folderid: a TypeError when the metadata is null or undefined
folderidOf(r) == IF Truthy(r.value) THEN R(r.w, "none", r.value.folderid)
                 ELSE R(r.w, "TypeError", Undefined)

\* mkdir: the name handed to execCreateDir is parentPath
mkdir(w, path, env) ==
    Await(stat(w, path, env),
      LAMBDA item :
        IF Truthy(item.value) THEN item
        ELSE IF path = <<"">> THEN R(item.w, "Error", Undefined)
        ELSE Await(statRaw(item.w, dirname(path), env),
               LAMBDA parentPathMetadata :
                 Await(folderidOf(parentPathMetadata),
                   LAMBDA folderid :
                     Await(execCreateDir(folderid.w, dirname(path), folderid.value, env),
                       LAMBDA newItem : R(newItem.w, "none", makeItem(newItem.value))))))

\* a fileExists that finds no folder
fileExists_never(w, path, env) ==
    Await(Exec(w, [cmd |-> "listfolder", path |-> makePath(path), recursive |-> 0], env),
          LAMBDA r : IF r.reply.result # Ok /\ r.reply.result # ParentNotFound
                     THEN R(r.w, "Error", Undefined)
                     ELSE R(r.w, "none", [kind |-> "boolean", b |-> FALSE]))

\* a fileExists that reads file-not-found as "does not exist" too
fileExists_lenient(w, path, env) ==
    Await(Exec(w, [cmd |-> "listfolder", path |-> makePath(path), recursive |-> 0], env),
          LAMBDA r : IF r.reply.result \notin {Ok, ParentNotFound, FileNotFound}
                     THEN R(r.w, "Error", Undefined)
                     ELSE R(r.w, "none", [kind |-> "boolean", b |-> r.reply.result = Ok]))

fileExists(w, path, env) ==
    Await(Exec(w, [cmd |-> "listfolder", path |-> makePath(path), recursive |-> 0], env),
          LAMBDA r : IF r.reply.result # Ok /\ r.reply.result # ParentNotFound
                     THEN R(r.w, "Error", Undefined)
                     ELSE R(r.w, "none", [kind |-> "boolean", b |-> r.reply.result = Ok]))

\* a delete that takes a missing target for done
delete_missingIsDone(w, path, env) ==
    Await(Exec(w, [method |-> "GET", cmd |-> "deletefile", path |-> makePath(path)], env),
          LAMBDA r : IF r.reply.result # Ok /\ r.reply.result # FileNotFound
                     THEN R(r.w, "Error", Undefined)
                     ELSE R(r.w, "none", r.reply.metadata))

\* delete: exec('GET', 'deletefile', { path })
delete(w, path, env) ==
    Await(Exec(w, [method |-> "GET", cmd |-> "deletefile", path |-> makePath(path)], env),
          LAMBDA r : IF r.reply.result # Ok THEN R(r.w, "Error", Undefined)
                     ELSE R(r.w, "none", r.reply.metadata))

RECURSIVE createDirRecursively(_, _, _)
createDirRecursively(w, directoryPath, env) ==
    IF directoryPath = <<"">> \/ directoryPath = <<"", "">>
    THEN statRaw(w, directoryPath, env)
    ELSE Await(fileExists(w, dirname(directoryPath), env),
           LAMBDA exists :
             Await(IF exists.value.b
                   THEN statRaw(exists.w, dirname(directoryPath), env)
                   ELSE createDirRecursively(exists.w, dirname(directoryPath), env),
               LAMBDA baseDirStat :
                 Await(folderidOf(baseDirStat),
                   LAMBDA folderid :
                     execCreateDir(folderid.w, basename(directoryPath), folderid.value, env))))

----------------------------------------------------------------------------
(* The driver's operations as steps: the callers' inputs and the provider's
   behaviour are chosen freely at each step *)

\* the paths the sync engine passes: '', 'a', 'a/b', '/a/b'
DirPaths == { <<"">>, <<"a">>, <<"a", "b">>, <<"", "a", "b">> }
\* '/a/b/c.txt', 'a/c.txt'
FilePaths == { <<"", "a", "b", "c.txt">>, <<"a", "c.txt">> }

FileContents == {"note one", "note two"}

\* how the provider and the transport behave during one step: which of the
\* step's calls fails and how, and the code a listing of a missing folder gets
Envs(calls, kinds, codes) ==
    { [faultAt |-> 0, faultKind |-> "result", missingFolder |-> c] : c \in codes }
    \cup { [faultAt |-> n, faultKind |-> k, missingFolder |-> ParentNotFound] :
              n \in 1..calls, k \in kinds }

NoOp == [name |-> "none", pc |-> "done", path |-> <<"">>, arg |-> Null, pre |-> {},
         calls |-> <<>>, threw |-> "none", value |-> Undefined]

NoPrev == [name |-> "none"]

\* the places in a log of calls where a command was sent
Sent(calls, cmd) == { n \in 1..Len(calls) : calls[n].req.cmd = cmd }

\* no call of the operation was made to fail
Clean(calls) == \A k \in 1..Len(calls) : ~calls[k].fault

\* what a mkdir keeps of the mkdir of the same path before it, a stat of the
\* delete of the same path before it, and a get of the put of the same path
\* before it
Remembered(o, next, path) ==
    IF \/ (o.name = "mkdir" /\ next = "mkdir" /\ o.path = path)
       \/ (o.name = "delete" /\ next = "stat" /\ o.path = path)
       \/ (o.name = "put" /\ next = "get" /\ o.path = makePath(path))
    THEN [name |-> o.name, path |-> o.path, arg |-> o.arg, pre |-> o.pre,
          threw |-> o.threw, value |-> o.value, clean |-> Clean(o.calls)]
    ELSE NoPrev

Fresh == World(folders, files, collapses, <<>>)

\* an operation that ran to its end in one step
Completed(name, path, arg, r) ==
    /\ op' = [name |-> name, pc |-> "done", path |-> path, arg |-> arg, pre |-> folders,
              calls |-> r.w.calls, threw |-> r.threw, value |-> r.value]
    /\ prev' = Remembered(op, name, path)
    /\ folders' = r.w.folders
    /\ files' = r.w.files
    /\ UNCHANGED collapses
    /\ UNCHANGED clientVars

Stat ==
    /\ op.pc = "done"
    /\ \E path \in DirPaths \cup FilePaths, env \in Envs(1, {"result", "Error"}, {ParentNotFound}) :
         Completed("stat", path, Null, stat(Fresh, path, env))

List ==
    /\ op.pc = "done"
    /\ \E path \in DirPaths, env \in Envs(1, {"result", "Error"}, {FileNotFound, ParentNotFound}) :
         Completed("list", path, Null, list(Fresh, path, Null, env))

Get ==
    /\ op.pc = "done"
    /\ \E path \in FilePaths, target \in {"file", "string"},
          env \in Envs(MaxFaultAt, {"result", "Error", "itemNotFound"}, {ParentNotFound}) :
         Completed("get", path, [kind |-> "options", target |-> target],
                   get(Fresh, path, target, env))

Mkdir ==
    /\ op.pc = "done"
    /\ \E path \in DirPaths, env \in Envs(MaxFaultAt, {"result", "Error"}, {ParentNotFound}) :
         Completed("mkdir", path, Null, mkdir(Fresh, path, env))

FileExists ==
    /\ op.pc = "done"
    /\ \E path \in DirPaths, env \in Envs(1, {"result", "Error"}, {FileNotFound, ParentNotFound}) :
         Completed("fileExists", path, Null, fileExists(Fresh, path, env))

\* delta: basicDelta asks the closure for the entries of a folder
Delta ==
    /\ op.pc = "done"
    /\ \E path \in DirPaths, env \in Envs(1, {"result", "Error"}, {FileNotFound, ParentNotFound}) :
         Completed("getDirStats", path, Null, getDirStats(Fresh, path, env))

Delete ==
    /\ op.pc = "done"
    /\ \E path \in FilePaths,
          env \in Envs(1, {"result", "Error", "itemNotFound"}, {ParentNotFound}) :
         Completed("delete", path, Null, delete(Fresh, path, env))

\* one step of the in-memory put: where it stands, and the world it made
PutStep(pcNext, r, threw, value) ==
    /\ op' = [op EXCEPT !.pc = pcNext, !.calls = r.w.calls, !.threw = threw, !.value = value]
    /\ folders' = r.w.folders
    /\ files' = r.w.files
    /\ UNCHANGED <<collapses, prev>>
    /\ UNCHANGED clientVars

\* put(path, content) with no options.source: path = makePath(path)
PutStart ==
    /\ op.pc = "done"
    /\ \E path \in FilePaths, content \in FileContents :
         op' = [name |-> "put", pc |-> "open", path |-> makePath(path), arg |-> content,
                pre |-> folders, calls |-> <<>>, threw |-> "none", value |-> Undefined]
    /\ prev' = NoPrev
    /\ UNCHANGED <<folders, files, collapses>>
    /\ UNCHANGED clientVars

\* the same behaviour, counted from the n calls the operation has made
Later(env, n) == [env EXCEPT !.faultAt = IF @ = 0 THEN 0 ELSE @ + n]

\* the reading of file_open's result in put
PutOpened(r) ==
    IF r.threw # "none" THEN PutStep("done", r, r.threw, Undefined)
    ELSE IF r.reply.result = Ok THEN PutStep("write", r, "none", r.reply.fd)
    ELSE IF r.reply.result = FileNotFound THEN PutStep("mkdirs", r, "none", Undefined)
    ELSE PutStep("done", r, "Error", Undefined)

\* file_open with the create flag
PutOpen ==
    /\ op.name = "put" /\ op.pc = "open"
    /\ Cardinality(Sent(op.calls, "file_open")) < MaxOpens
    /\ \E env \in Envs(1, {"result", "notFound", "Error"}, {ParentNotFound}) :
         PutOpened(Exec(World(folders, files, collapses, op.calls),
                        [cmd |-> "file_open", create |-> TRUE, path |-> op.path],
                        Later(env, Len(op.calls))))

PutCreated(r) ==
    IF r.threw # "none" THEN PutStep("done", r, r.threw, Undefined)
    ELSE PutStep("open", r, "none", Undefined)

\* createDirRecursively(dirname(path)), then put again from the top
PutCreateDirs ==
    /\ op.name = "put" /\ op.pc = "mkdirs"
    /\ \E env \in Envs(MaxFaultAt, {"result", "Error"}, {FileNotFound, ParentNotFound}) :
         PutCreated(createDirRecursively(World(folders, files, collapses, op.calls),
                                         dirname(op.path), Later(env, Len(op.calls))))

PutWritten(r) ==
    IF r.threw # "none" THEN PutStep("done", r, r.threw, Undefined)
    ELSE PutStep("done", r, "none", [kind |-> "response", body |-> r.reply])

\* exec('PUT', 'file_write', { fd }, content): its response is put's value
PutWrite ==
    /\ op.name = "put" /\ op.pc = "write"
    /\ \E env \in Envs(1, {"result", "Error"}, {ParentNotFound}) :
         PutWritten(Exec(World(folders, files, collapses, op.calls),
                         [cmd |-> "file_write", fd |-> op.value, data |-> op.arg],
                         Later(env, Len(op.calls))))

\* a client that holds a token, with no exec call of its own under way
ClientReady ==
    /\ auth_ = CHOOSE a \in PcloudAuth : a.hostname = "api.pcloud.com"
    /\ setting = JSONstringify(auth_)
    /\ api_ = TRUE
    /\ listeners_ = 1
    /\ notified = <<auth_>>
    /\ pc = "idle"
    /\ method = "GET"
    /\ url = "none"
    /\ i = 0
    /\ request = Null
    /\ nSent = 0
    /\ nRate = 0
    /\ backoffs = <<>>
    /\ sleepSeconds = 0
    /\ cause = [class |-> "none"]
    /\ outcome = [kind |-> "pending"]

\* the folder trees an operation may find
InitialFolders == { {<<>>}, {<<>>, <<"a">>}, {<<>>, <<"a">>, <<"a", "b">>} }

(* Directories and entries: stat, list, fileExists, mkdir, delete, delta *)

InitDir ==
    /\ ClientReady
    /\ folders \in InitialFolders
    /\ files \in { <<>>, (<<"n.md">> :> "note one") }
                \cup { (<<"a", "c.txt">> :> "note one") : f \in folders \cap {<<"a">>} }
    /\ collapses \in BOOLEAN
    /\ op = NoOp
    /\ prev = NoPrev

NextDir ==
    \/ Stat
    \/ List
    \/ FileExists
    \/ Mkdir
    \/ Delete
    \/ Delta

SpecDir == InitDir /\ [][NextDir]_vars

(* Files: the in-memory put and both strategies of get *)

InitFile ==
    /\ ClientReady
    /\ folders \in InitialFolders
    /\ files = <<>>
    /\ collapses \in BOOLEAN
    /\ op = NoOp
    /\ prev = NoPrev

NextFile ==
    \/ PutStart
    \/ PutOpen
    \/ PutCreateDirs
    \/ PutWrite
    \/ Get

SpecFile == InitFile /\ [][NextFile]_vars

----------------------------------------------------------------------------
(* SyncTargetPCloud.api(), the login screen and the token exchange *)

execVars == <<pc, method, url, i, request, nSent, nRate, backoffs, sleepSeconds, cause, outcome>>

\* api(): the cached client, or a new one with the callback registered and
\* the stored auth (parsed defensively) handed to setAuth
api ==
    /\ IF api_
       THEN UNCHANGED <<api_, listeners_, auth_, setting, notified>>
       ELSE /\ api_' = TRUE
            /\ listeners_' = listeners_ + 1
            /\ IF Truthy(setting)
               THEN LET parsed == JSONparse(setting)
                        a == IF parsed.ok THEN parsed.value ELSE Null
                        r == setAuth(a, listeners_ + 1, setting)
                    IN  /\ auth_' = r.auth
                        /\ setting' = r.setting
                        /\ notified' = r.notified
               ELSE UNCHANGED <<auth_, setting, notified>>
    /\ UNCHANGED execVars
    /\ UNCHANGED fsVars

\* execTokenRequest: a failed status raises before setAuth; a parsed body
\* becomes the token; a body that does not parse clears it
execTokenRequest ==
    /\ api_
    /\ \E res \in {[kind |-> "notOk"], [kind |-> "unparsable"]} \cup PcloudAuth :
         IF res.kind = "notOk"
         THEN UNCHANGED <<auth_, setting, notified>>
         ELSE LET r == setAuth(IF res.kind = "unparsable" THEN Null ELSE res, listeners_, setting)
              IN  /\ auth_' = r.auth
                  /\ setting' = r.setting
                  /\ notified' = r.notified
    /\ UNCHANGED <<api_, listeners_>>
    /\ UNCHANGED execVars
    /\ UNCHANGED fsVars

\* PCloudLoginScreen.componentDidMount after oauthDance returned auth:
\* Setting.setValue(...) and then syncTarget.api().setAuth(auth)
componentDidMount ==
    /\ api_
    /\ \E a \in AuthValues :
         LET stored == IF Truthy(a) THEN JSONstringify(a) ELSE Null
             r == setAuth(a, listeners_, stored)
         IN  /\ auth_' = r.auth
             /\ setting' = r.setting
             /\ notified' = r.notified
    /\ UNCHANGED <<api_, listeners_>>
    /\ UNCHANGED execVars
    /\ UNCHANGED fsVars

----------------------------------------------------------------------------
(* PCloudApi.exec: one step per stretch of code between two awaits *)

Ended(kind) == [kind |-> kind]

\* the top of the loop body up to the await of the request: the headers
\* are set from the token that is current now
Send(idx) ==
    /\ i' = idx
    /\ request' = [bearer |-> token(auth_), hostname |-> url]
    /\ nSent' = nSent + 1
    /\ pc' = "inflight"
    /\ UNCHANGED outcome

\* continue: i++, the loop test, and either the next attempt or the throw
\* that follows the loop
Continue(idx) ==
    IF NextIndex(idx) < MaxAttempts
    THEN Send(NextIndex(idx))
    ELSE /\ i' = NextIndex(idx)
         /\ pc' = "done"
         /\ outcome' = [kind |-> "exhausted", method |-> method, url |-> url]
         /\ UNCHANGED <<request, nSent>>

\* exec(method, ...) up to its first await
execStart ==
    /\ api_
    /\ pc \in {"idle", "done"}
    /\ \E m \in HttpMethod :
         LET u == apiUrl(auth_) IN
         /\ method' = m
         /\ nRate' = 0
         /\ backoffs' = <<>>
         /\ sleepSeconds' = 0
         /\ cause' = [class |-> "none"]
         /\ IF u.ok
            THEN /\ url' = u.hostname
                 /\ i' = 0
                 /\ request' = [bearer |-> token(auth_), hostname |-> u.hostname]
                 /\ nSent' = 1
                 /\ pc' = "inflight"
                 /\ outcome' = Ended("pending")
            ELSE /\ url' = "none"
                 /\ i' = 0
                 /\ request' = Null
                 /\ nSent' = 0
                 /\ pc' = "done"
                 /\ outcome' = Ended("typeError")
    /\ UNCHANGED <<setting, api_, auth_, listeners_, notified>>
    /\ UNCHANGED fsVars

\* what the call keeps of the response it classified: the retry-after header
\* it slept on, the error code it ended on
Cause(c, resp) ==
    IF c = "throttle" THEN [class |-> c, header |-> resp.header]
    ELSE IF c \in {"fatal", "noop"} THEN [class |-> c, code |-> resp.code]
    ELSE [class |-> c]

\* the request settles: the catch block, or the classification of the response
execRespond ==
    /\ pc = "inflight"
    /\ \E resp \in Responses :
         LET c == Classify(resp, method) IN
         /\ cause' = Cause(c, resp)
         /\ CASE c = "return" ->
                   /\ pc' = "done" /\ outcome' = Ended("response")
                   /\ UNCHANGED <<i, request, nSent, nRate, backoffs, sleepSeconds>>
              [] c = "throwTransport" ->
                   /\ pc' = "done" /\ outcome' = Ended("transportError")
                   /\ UNCHANGED <<i, request, nSent, nRate, backoffs, sleepSeconds>>
              [] c = "typeError" ->
                   /\ pc' = "done" /\ outcome' = Ended("typeError")
                   /\ UNCHANGED <<i, request, nSent, nRate, backoffs, sleepSeconds>>
              [] c = "fatal" ->
                   /\ pc' = "done"
                   /\ outcome' = [kind |-> "fatal", request |-> <<method, url>>,
                                  headers |-> resp.header]
                   /\ UNCHANGED <<i, request, nSent, nRate, backoffs, sleepSeconds>>
              [] c = "noop" ->
                   /\ pc' = "done" /\ outcome' = Ended("undefined")
                   /\ UNCHANGED <<i, request, nSent, nRate, backoffs, sleepSeconds>>
              [] c = "repeat" ->
                   /\ sleepSeconds' = handleRequestRepeat(i, Null)
                   /\ backoffs' = Append(backoffs, sleepSeconds')
                   /\ pc' = "sleep"
                   /\ UNCHANGED <<i, request, nSent, nRate, outcome>>
              [] c = "throttle" ->
                   /\ i' = ThrottleIndex(i)
                   /\ sleepSeconds' = handleRequestRepeat(i', Number(resp.header))
                   /\ IF nRate < MaxRateLimited
                      THEN nRate' = nRate + 1 /\ nSent' = nSent
                      ELSE nRate' = nRate /\ nSent' = nSent - 1
                   /\ pc' = "sleep"
                   /\ UNCHANGED <<request, backoffs, outcome>>
              [] c = "authRetry" ->
                   /\ Continue(i)
                   /\ UNCHANGED <<nRate, backoffs, sleepSeconds>>
    /\ UNCHANGED <<setting, api_, auth_, listeners_, notified, method, url>>
    /\ UNCHANGED fsVars

\* time.sleep resolves, then continue
sleepDone ==
    /\ pc = "sleep"
    /\ Continue(i)
    /\ sleepSeconds' = 0
    /\ cause' = [class |-> cause.class]
    /\ UNCHANGED <<setting, api_, auth_, listeners_, notified, method, url, nRate, backoffs>>
    /\ UNCHANGED fsVars

----------------------------------------------------------------------------
(* The client: the sync target, its PCloudApi and one exec call at a time *)

Init ==
    /\ setting \in SettingValues
    /\ api_ = FALSE
    /\ auth_ = Null
    /\ listeners_ = 0
    /\ notified = <<>>
    /\ pc = "idle"
    /\ method = "GET"
    /\ url = "none"
    /\ i = 0
    /\ request = Null
    /\ nSent = 0
    /\ nRate = 0
    /\ backoffs = <<>>
    /\ sleepSeconds = 0
    /\ cause = [class |-> "none"]
    /\ outcome = Ended("pending")
    /\ folders = {<<>>}
    /\ files = <<>>
    /\ collapses = TRUE
    /\ op = NoOp
    /\ prev = NoPrev

Next ==
    \/ api
    \/ execTokenRequest
    \/ componentDidMount
    \/ execStart
    \/ execRespond
    \/ sleepDone

Spec == Init /\ [][Next]_vars

\* every request settles and every sleep ends
FairSpec == Spec /\ WF_vars(execRespond) /\ WF_vars(sleepDone)

----------------------------------------------------------------------------
(* Properties of the client *)

\* C1: in exec, an ordinary retryable failure at loop index i is followed by
\* a sleep of exactly (i+1)*5 seconds; after 5 such failures (sleeps
\* 5,10,15,20,25) the call raises the exhaustion failure naming the method
\* and the URL, and no 6th request is sent.
C1_LinearBackoffThenExhaustion ==
    /\ (pc = "sleep" /\ cause.class = "repeat") =>
           /\ sleepSeconds = (i + 1) * 5
           /\ backoffs[Len(backoffs)] = sleepSeconds
    /\ Len(backoffs) = 5 =>
           /\ backoffs = <<5, 10, 15, 20, 25>>
           /\ nSent - nRate = 5
           /\ pc # "inflight"
           /\ pc = "done" => outcome = [kind |-> "exhausted", method |-> method, url |-> url]
    /\ nSent - nRate <= 5

\* five ordinary failures in a row, and the call has ended exhausted
C1_Witness ==
    /\ pc = "done"
    /\ outcome.kind = "exhausted"
    /\ backoffs = <<5, 10, 15, 20, 25>>
    /\ nSent = 5

\* C2: a rate-limited response with a numeric retry-after of n seconds makes
\* the loop sleep exactly n seconds and leaves the attempt budget unchanged:
\* the loop index always equals the number of attempts that were not
\* rate-limited, so the call is exhausted only by 5 attempts that were not
\* rate-limited, and a success after any number of rate-limited responses
\* is returned.
C2_ThrottleKeepsBudget ==
    /\ (pc = "sleep" /\ cause.class = "throttle") =>
           /\ cause.header.kind = "digits"
           /\ sleepSeconds = cause.header.n
    /\ pc \in {"inflight", "sleep"} => i = nSent - nRate - 1
    /\ (pc = "done" /\ outcome.kind = "exhausted") => nSent - nRate = 5
    /\ (pc = "done" /\ cause.class = "return") => outcome.kind = "response"

\* more rate-limited responses than the loop has attempts, four ordinary
\* failures among them, and the call still returned the successful response
C2_Witness ==
    /\ pc = "done"
    /\ outcome.kind = "response"
    /\ nRate > 5
    /\ Len(backoffs) = 4
    /\ nSent = nRate + 5

\* C7: no request sent by exec carries a null token, also when setAuth(null)
\* runs while the retry loop is waiting.
C7_NoRequestWithNullToken ==
    request # Null => request.bearer # "null"

\* C8: every setAuth on the sync target's client fired exactly one
\* notification carrying the new value, so that the persisted setting is the
\* serialization of the current token, and null when the token is null.
C8_SettingMirrorsToken ==
    notified # <<>> =>
        /\ notified = <<auth_>>
        /\ setting = IF auth_ = Null THEN Null ELSE [kind |-> "string", json |-> auth_]

\* setAuth(null) was delivered and the stored auth has been cleared
C8_Witness ==
    /\ api_
    /\ notified = <<Null>>
    /\ auth_ = Null
    /\ setting = Null

\* C11: an item-not-found response to a DELETE ends exec with no error and
\* no value (undefined), at any loop index, and no request follows it; an
\* item-not-found response to any other verb ends exec with the fatal error
C11_DeleteNotFoundIsNoop ==
    /\ [](cause.class = "noop" =>
             /\ method = "DELETE" /\ cause.code = "itemNotFound"
             /\ pc = "done" /\ outcome = Ended("undefined"))
    /\ []((cause.class = "fatal" /\ cause.code = "itemNotFound") =>
             /\ method # "DELETE"
             /\ pc = "done" /\ outcome.kind = "fatal")
    /\ [][(pc = "inflight" /\ cause'.class \in {"noop", "fatal"}) =>
             (pc' = "done" /\ nSent' = nSent /\ request' = request /\ i' = i)]_vars
    /\ [][(pc = "inflight" /\ method = "DELETE" /\ pc' = "done" /\ outcome'.kind = "fatal") =>
             cause'.code # "itemNotFound"]_vars

\* a DELETE that met item-not-found at its fifth attempt and returned nothing
C11_Witness ==
    /\ pc = "done" /\ method = "DELETE"
    /\ cause.class = "noop"
    /\ outcome = Ended("undefined")
    /\ i = 4 /\ nSent = 5

\* C19: an authentication-expired response at index i is followed at once,
\* with no sleep, by the attempt of index i + 1, or by the exhaustion failure
\* when i + 1 = 5; an ordinary failure of the attempt sent right after it
\* sleeps (i + 2) * 5 seconds; a call that ends exhausted without having
\* slept at all has sent exactly 5 requests
C19_AuthExpiredConsumesAttempt ==
    /\ [][(execRespond /\ cause'.class = "authRetry") =>
             /\ i' = i + 1
             /\ backoffs' = backoffs /\ sleepSeconds' = sleepSeconds /\ nRate' = nRate
             /\ IF i + 1 < 5
                THEN pc' = "inflight" /\ nSent' = nSent + 1
                ELSE /\ pc' = "done" /\ nSent' = nSent
                     /\ outcome' = [kind |-> "exhausted", method |-> method, url |-> url]]_vars
    /\ [][(execRespond /\ cause.class = "authRetry" /\ cause'.class = "repeat") =>
             (pc' = "sleep" /\ sleepSeconds' = ((i - 1) + 2) * 5)]_vars
    /\ []((pc = "done" /\ outcome.kind = "exhausted" /\ backoffs = <<>> /\ nRate = 0) =>
             (nSent = 5 /\ cause.class = "authRetry"))

\* five authentication-expired responses in a row: exhausted after five
\* requests and no sleep
C19_Witness ==
    /\ pc = "done" /\ outcome.kind = "exhausted"
    /\ cause.class = "authRetry"
    /\ nSent = 5 /\ backoffs = <<>> /\ nRate = 0

\* C18: every exec call that has sent a request ends (returns or raises),
\* whatever the responses are, provided each request settles and each sleep
\* ends
C18_ExecTerminates == (pc = "inflight") ~> (pc = "done")

\* C20: a transport error that cannot be retried, and a response error of
\* none of the retried classes (a rate-limited one whose retry-after is absent
\* or not a number included), end the call at that attempt, with no sleep and
\* no further request; the error raised for a response error carries the
\* request (method and url) and the headers of the response
C20_FatalCarriesRequest ==
    /\ [][(execRespond /\ cause'.class \in {"throwTransport", "fatal", "typeError"}) =>
             /\ pc' = "done" /\ outcome'.kind # "response"
             /\ i' = i /\ nSent' = nSent /\ request' = request
             /\ backoffs' = backoffs /\ sleepSeconds' = sleepSeconds]_vars
    /\ []((pc = "done" /\ cause.class \in {"fatal", "typeError"}) =>
             /\ outcome.kind = "fatal"
             /\ outcome.request = <<method, url>>
             /\ "headers" \in DOMAIN outcome)

\* C22: every request exec sends carries the access token and the hostname
\* of one and the same token, also when setAuth replaced the token while the
\* retry loop was running
C22_TokenAndHostnameAgree ==
    (request # Null /\ request.bearer # "null") =>
        \E a \in PcloudAuth :
            request.bearer = a.access_token /\ request.hostname = a.hostname

----------------------------------------------------------------------------
(* Properties of the driver *)

\* the provider's reply to call c was the result code
Replied(c, code) == c.threw = "none" /\ c.result = code

\* the folders and files a path string names, whatever its leading separator
Components(path) == Resolve(makePath(path), TRUE).comps

\* the folder a create-folder call asks for
Asked(c) == Append(c.req.folderid.of, c.req.name[1])

\* the ancestor folders of a file that are not in a folder tree
MissingAncestors(comps, tree) ==
    { SubSeq(comps, 1, n) : n \in 1..(Len(comps) - 1) } \ tree

\* C3: for every path, the root included, stat returns null exactly when the
\* provider answered file-not-found, and raises on every other non-OK result
\* code instead of returning null or a stat record
C3_StatNullIffNotFound ==
    (op.name = "stat" /\ op.pc = "done" /\ Len(op.calls) = 1 /\ op.calls[1].threw = "none") =>
        /\ (op.threw = "none" /\ op.value = Null) <=> op.calls[1].result = FileNotFound
        /\ op.calls[1].result \notin {Ok, FileNotFound} => op.threw # "none"

\* C4: two mkdir of the same path in a row, the parent of the path existing
\* and no call failing, return the same stat, and the second one sends no
\* create-folder call
C4_MkdirIdempotent ==
    (/\ op.name = "mkdir" /\ op.pc = "done" /\ Clean(op.calls)
     /\ prev.name = "mkdir" /\ prev.path = op.path /\ prev.clean
     /\ op.path # <<"">>
     /\ SubSeq(Components(op.path), 1, Len(Components(op.path)) - 1) \in prev.pre) =>
        /\ prev.threw = "none"
        /\ op.threw = "none"
        /\ op.value = prev.value
        /\ Sent(op.calls, "createfolderifnotexists") = {}

\* C5: an in-memory put with k missing nearest ancestors, no call failing and
\* missing folders listed as parent-not-found, returns after exactly k
\* create-folder calls, each for a missing ancestor inside a folder that was
\* there or that an earlier call created, all of them between the first
\* descriptor-open and exactly one more, and after exactly one write, its
\* last call; with k = 0 there is one descriptor-open and no create-folder call
C5_PutCreatesMissingAncestors ==
    (/\ op.name = "put" /\ op.pc = "done" /\ Clean(op.calls)
     /\ \A n \in Sent(op.calls, "listfolder") : ~Replied(op.calls[n], FileNotFound)) =>
        LET missing == MissingAncestors(Components(op.path), op.pre)
            creates == Sent(op.calls, "createfolderifnotexists")
            opens == Sent(op.calls, "file_open")
        IN  /\ op.threw = "none"
            /\ Cardinality(creates) = Cardinality(missing)
            /\ { Asked(op.calls[n]) : n \in creates } = missing
            /\ \A n \in creates :
                  /\ Replied(op.calls[n], Ok)
                  /\ op.calls[n].req.folderid = FolderId(op.calls[n].req.folderid.of)
                  /\ \/ op.calls[n].req.folderid.of \in op.pre
                     \/ \E m \in creates : m < n /\ Asked(op.calls[m]) = op.calls[n].req.folderid.of
            /\ Cardinality(opens) = IF missing = {} THEN 1 ELSE 2
            /\ 1 \in opens
            /\ \A n \in creates : \E o \in opens : n < o
            /\ Sent(op.calls, "file_write") = {Len(op.calls)}

C5_Witness ==
    /\ op.name = "put" /\ op.pc = "done" /\ Clean(op.calls) /\ op.threw = "none"
    /\ op.path = <<"", "a", "b", "c.txt">>
    /\ Cardinality(MissingAncestors(Components(op.path), op.pre)) = 2
    /\ Cardinality(Sent(op.calls, "createfolderifnotexists")) = 2

\* C6: after a put of '/a/b/c.txt' returned on a provider that had neither /a
\* nor /a/b, both folders are there and a get of '/a/b/c.txt', no call
\* failing, opens the path the put wrote to and returns the content that
\* was put
C6_PutThenGetRoundTrip ==
    (/\ op.name = "get" /\ op.pc = "done" /\ Clean(op.calls)
     /\ op.path = <<"", "a", "b", "c.txt">> /\ op.arg.target = "string"
     /\ prev.name = "put" /\ prev.clean /\ prev.threw = "none"
     /\ <<"a">> \notin prev.pre) =>
        /\ {<<"a">>, <<"a", "b">>} \subseteq folders
        /\ op.calls[1].req.path = prev.path
        /\ op.threw = "none"
        /\ op.value = [kind |-> "content", data |-> prev.arg]

\* C9: in both strategies get returns null when the provider reports that the
\* file is not there, and raises on every other failure of one of its calls
C9_GetNullOnlyWhenMissing ==
    (op.name = "get" /\ op.pc = "done") =>
        LET missing == \/ op.calls[1].threw = "itemNotFound"
                       \/ Replied(op.calls[1], FileNotFound)
            failed == \E n \in 1..Len(op.calls) :
                         \/ op.calls[n].threw = "Error"
                         \/ op.calls[n].threw = "none" /\ op.calls[n].result \notin {Ok, FileNotFound}
        IN  /\ missing => (op.threw = "none" /\ op.value = Null)
            /\ (~missing /\ failed) => op.threw # "none"

\* C10: every value list returns has hasMore false; a listing the provider
\* answers with file-not-found, and a listing of an empty root, return no
\* items and hasMore false and do not raise
C10_ListNeverHasMore ==
    (op.name = "list" /\ op.pc = "done") =>
        /\ op.threw = "none" => op.value.hasMore = FALSE
        /\ Replied(op.calls[1], FileNotFound) =>
              (op.threw = "none" /\ op.value = [hasMore |-> FALSE, items |-> <<>>])
        /\ (op.path = <<"">> /\ Clean(op.calls) /\ op.pre = {<<>>} /\ DOMAIN files = {}) =>
              (op.threw = "none" /\ op.value = [hasMore |-> FALSE, items |-> <<>>])

C10_Witness ==
    /\ op.name = "list" /\ op.pc = "done"
    /\ Replied(op.calls[1], FileNotFound)
    /\ op.value = [hasMore |-> FALSE, items |-> <<>>]

\* C12: delete sends exactly one provider command, deletefile with the verb
\* GET; it raises on every non-OK result code, file-not-found included, and on
\* every error exec raises; on an OK result it returns the reply's metadata,
\* and a stat of the same path right after it, no call failing, returns null
C12_DeleteRaisesUnlessOk ==
    /\ (op.name = "delete" /\ op.pc = "done") =>
          /\ Len(op.calls) = 1
          /\ op.calls[1].req = [method |-> "GET", cmd |-> "deletefile", path |-> makePath(op.path)]
          /\ op.calls[1].threw # "none" => op.threw = op.calls[1].threw
          /\ (op.calls[1].threw = "none" /\ op.calls[1].result # Ok) => op.threw = "Error"
          /\ Replied(op.calls[1], Ok) =>
                /\ op.threw = "none"
                /\ op.value = [FileMetadata(Components(op.path)) EXCEPT !.isdeleted = TRUE]
                /\ Components(op.path) \notin DOMAIN files
    /\ (op.name = "stat" /\ op.pc = "done" /\ Clean(op.calls)
        /\ prev.name = "delete" /\ prev.threw = "none") =>
          (op.threw = "none" /\ op.value = Null)

\* a file was deleted and the stat after it found nothing
C12_Witness ==
    /\ op.name = "stat" /\ op.pc = "done" /\ Clean(op.calls)
    /\ prev.name = "delete" /\ prev.threw = "none" /\ prev.clean
    /\ prev.value.isdeleted
    /\ op.value = Null

\* C13: fileExists sends one listing that is not recursive; it returns true
\* exactly when the result is OK, false exactly when it is parent-not-found,
\* and raises on every other result code, file-not-found included
C13_FileExistsByResultCode ==
    (op.name = "fileExists" /\ op.pc = "done") =>
        /\ Len(op.calls) = 1
        /\ op.calls[1].req = [cmd |-> "listfolder", path |-> makePath(op.path), recursive |-> 0]
        /\ op.calls[1].threw = "none" =>
              /\ op.calls[1].result = Ok <=>
                    (op.threw = "none" /\ op.value = [kind |-> "boolean", b |-> TRUE])
              /\ op.calls[1].result = ParentNotFound <=>
                    (op.threw = "none" /\ op.value = [kind |-> "boolean", b |-> FALSE])
              /\ op.calls[1].result \notin {Ok, ParentNotFound} <=> op.threw = "Error"

\* the provider answered file-not-found and fileExists raised
C13_Witness ==
    /\ op.name = "fileExists" /\ op.pc = "done"
    /\ Replied(op.calls[1], FileNotFound)
    /\ op.threw = "Error"

\* C14: no item the closure of delta yields is a directory
C14_ListerYieldsNoDirs ==
    (op.name = "getDirStats" /\ op.pc = "done" /\ op.threw = "none") =>
        ~\E k \in 1..Len(op.value) : op.value[k].isDir

\* C15: a mkdir of a path that is not there and whose parent is not there
\* either raises, sends no create-folder call and leaves the folder tree as
\* it was
C15_MkdirCreatesNoAncestors ==
    (/\ op.name = "mkdir" /\ op.pc = "done"
     /\ op.path # <<"">>
     /\ Components(op.path) \notin op.pre
     /\ SubSeq(Components(op.path), 1, Len(Components(op.path)) - 1) \notin op.pre) =>
        /\ op.threw # "none"
        /\ Sent(op.calls, "createfolderifnotexists") = {}
        /\ folders = op.pre

\* mkdir('a/b') on a provider that holds only the root: both lookups were
\* answered file-not-found and mkdir raised
C15_Witness ==
    /\ op.name = "mkdir" /\ op.pc = "done" /\ Clean(op.calls)
    /\ op.path = <<"a", "b">> /\ op.pre = {<<>>}
    /\ Len(op.calls) = 2
    /\ op.threw = "TypeError"

\* a path string that begins with one separator and not with two
OneLeadingSeparator(path) ==
    /\ StartsWithSlash(path)
    /\ Len(path) = 2 \/ path[2] # ""

\* C16: every path a driver operation sends to the provider begins with
\* exactly one separator
C16_OneLeadingSeparator ==
    \A n \in 1..Len(op.calls) :
        "path" \in DOMAIN op.calls[n].req => OneLeadingSeparator(op.calls[n].req.path)

\* C17: a mkdir of a path that is not there and whose parent is, no call
\* failing, sends exactly one create-folder call, for the last component of
\* the path inside the parent's folder id, and afterwards the folder tree is
\* the one before plus that path
C17_MkdirCreatesThePath ==
    (/\ op.name = "mkdir" /\ op.pc = "done" /\ Clean(op.calls)
     /\ op.path # <<"">>
     /\ Components(op.path) \notin op.pre
     /\ SubSeq(Components(op.path), 1, Len(Components(op.path)) - 1) \in op.pre) =>
        LET comps == Components(op.path)
            creates == Sent(op.calls, "createfolderifnotexists")
        IN  /\ Cardinality(creates) = 1
            /\ \A n \in creates :
                  /\ op.calls[n].req.name = <<comps[Len(comps)]>>
                  /\ op.calls[n].req.folderid = FolderId(SubSeq(comps, 1, Len(comps) - 1))
            /\ op.threw = "none"
            /\ folders = op.pre \cup {comps}

\* C21: an operation sends a request only when the request before it has
\* returned; in both strategies of get the size query has returned before the
\* read is sent, and the count of the read is the size it returned
C21_CallsAreSequential ==
    (op.name = "get" /\ op.pc = "done") =>
        /\ \A n \in Sent(op.calls, "file_size") : op.calls[n].req.awaited
        /\ \A n \in Sent(op.calls, "file_read") :
              /\ n > 1 /\ op.calls[n - 1].req.cmd = "file_size"
              /\ op.calls[n].req.count # [kind |-> "promise"]
              /\ Replied(op.calls[n - 1], Ok) => op.calls[n].req.count.kind = "sizeof"

\* C23: one put opens a write descriptor at most twice, whatever the provider
\* answers
C23_PutOpensAtMostTwice ==
    op.name = "put" => Cardinality(Sent(op.calls, "file_open")) <= 2

====
